---- MODULE Spec2Model ----
(***************************************************************************)
(* Model of the portfolio alert monitor                                    *)
(* (legacy_finance/scripts/portfolio_alert_monitor.py) and of its state    *)
(* file (legacy_finance/scripts/lib/state.py), of the option buyback       *)
(* monitor (option_buyback_monitor.py) and of the DCA proposal             *)
(* (dca_proposal_tg.py).                                                   *)
(*                                                                         *)
(* Units.  The code works on floats; the model works on exact integers:    *)
(* P&L in dollars, day moves in percent points (0.05 is 5), RSI as the     *)
(* rounded integer the code computes, time in seconds.                     *)
(*                                                                         *)
(* An optional value (Python None or a value) is a sequence of length 0    *)
(* or 1.                                                                   *)
(***************************************************************************)
EXTENDS Integers, Sequences, FiniteSets, TLC

VARIABLES
    cfg,        \* the "alerts" / "tqqq_macro" configuration read by main()
    disk,       \* the state file data/portfolio_alert_state.json
    now,        \* wall clock (unix seconds) at the latest run
    runs,       \* number of runs started so far
    inp,        \* what the collaborators returned to the latest run
    loaded,     \* st["last"] as the latest run loaded it
    alerts,     \* the alerts list of the latest run
    exit,       \* how the latest run ended: "none", "ok", "crash"
    \* observers of the runs, which no run reads
    diskSeen,   \* the kind of state file the latest run found
    prevAlerts, \* the alerts list of the run before the latest one
    prevExit,   \* how the run before the latest one ended
    prevTrue,   \* the keys whose condition was true in the run before the latest
    firedBefore,\* key -> severity of its most recent alert before the latest run
    ladderPos,  \* how many runs, from the first on, followed PnlLadder
    ladderFired,\* which of those runs emitted a P&L alert
    l1Start,    \* time of the first run of the current unbroken macro stretch
    l1Fires,    \* macro alerts emitted in that stretch
    l1LastFire, \* time of the latest macro alert in that stretch
    l1PrevFire, \* time of the macro alert before the latest in that stretch
    \* the processes that work on the state file, step by step
    tmpf,       \* the temporary file next to the state file (<name>.tmp)
    lockf,      \* the holder of the exclusive flock on the lock file, if any
    proc,       \* process -> its position and its local variables
    orig,       \* the state file before the processes began
    \* the option buyback monitor
    obDisk,     \* the state file data/option_buyback_state.json
    obQuote,    \* the quote the latest run got
    obAlerts,   \* the targets the latest run alerted
    obRuns,     \* number of runs so far
    obHist,     \* target -> "fresh", "alerted" or "rearmed", after the latest run
    obWas,      \* obHist before the latest run
    \* the DCA proposal
    dcaIn,      \* the configuration, the cash and the bids of the latest proposal
    dcaOut      \* the latest proposal

obs == <<diskSeen, prevAlerts, prevExit, prevTrue, firedBefore, ladderPos, ladderFired,
         l1Start, l1Fires, l1LastFire, l1PrevFire>>
ob == <<obDisk, obQuote, obAlerts, obRuns, obHist, obWas>>
dca == <<dcaIn, dcaOut>>
ext == <<tmpf, lockf, proc, orig, ob, dca>>
vars == <<cfg, disk, now, runs, inp, loaded, alerts, exit, obs, ext>>

----------------------------------------------------------------------------
(* Bounds of the model *)

MaxRuns == 3
MaxPnlRuns == 4
MaxOverlapRuns == 4
MaxElapsed == 60
MaxObRuns == 4

MaxMacroRuns == 8

----------------------------------------------------------------------------
(* Program constants: the defaults of main() *)

PNL_TRIGGER == 500
PNL_STEP == 500
RSI_HIGH == 80
RSI_LOW == 20
RSI_STEP == 2
MOVE_TOP10_TRIGGER == 5
MOVE_OTHER_TRIGGER == 10
MOVE_STEP == 1
TOP_RANK == 10
\* QQQ_52W_HIGH * (1 + L1_TRIGGER_PCT) = 636.60 * 0.90 = 572.94; prices of
\* the model are whole dollars, so "<= 572.94" is "<= 572"
QQQ_L1_TRIGGER == 572
TQQQ_L1_MIN_GAP_SECONDS == 172800
L1_COUNT_CAP == 3
ALERT_TIMEOUT == 50
SNAPSHOT_TIMEOUT == 20
RSI_TIMEOUT == 15
QQQ_LP_TIMEOUT == 8
QQQ_YF_TIMEOUT == 6
SUPPLEMENT_TIMEOUT == 6
RESET_PCT == 20

None == << >>
Some(x) == <<x>>

Abs(x) == IF x < 0 THEN -x ELSE x

EmptyMap == << >>

\* d[k] = v, as a Python dict assignment
Put(d, k, v) == [x \in (DOMAIN d) \cup {k} |-> IF x = k THEN v ELSE d[x]]

----------------------------------------------------------------------------
(* Signal keys.  The code's keys are the strings "pnl", "qqq_l1",          *)
(* "move:<ticker>", "rsi_low:<ticker>" and "rsi_high:<ticker>"; a key of   *)
(* the model is the pair of the prefix and the ticker.                     *)

Key(cat, tkr) == [cat |-> cat, tkr |-> tkr]
PNL_KEY == Key("pnl", "")
QQQ_KEY == Key("qqq_l1", "")
MoveKey(tkr) == Key("move", tkr)
RsiLowKey(tkr) == Key("rsi_low", tkr)
\* a variant of RsiHighKey that puts both RSI ladders of a ticker on one key
RsiHighKey_shared(tkr) == Key("rsi_low", tkr)
RsiHighKey(tkr) == Key("rsi_high", tkr)

LEVERAGED_ETFS ==
    [t \in {"TQQQ", "SQQQ", "UPRO", "SPXU", "TNA", "TZA", "SOXL", "SOXS",
            "FNGU", "LABU"} |->
        IF t \in {"SQQQ", "SPXU", "TZA", "SOXS"} THEN -3 ELSE 3]

Cleared(ts) == [active |-> FALSE, severity |-> 0, ts |-> ts]

----------------------------------------------------------------------------
(* should_send, after three variants of it that a slip would produce: one  *)
(* that does not send for a key without a record, one that forgets the     *)
(* step, one that asks for more than the step.                             *)

should_send_no_first(key, severity, step, last) ==
    IF key \notin DOMAIN last THEN FALSE
    ELSE LET prev == last[key] IN
         IF "severity" \notin DOMAIN prev THEN TRUE
         ELSE IF ~("active" \in DOMAIN prev /\ prev.active) THEN TRUE
         ELSE severity >= prev.severity + step

should_send_no_step(key, severity, step, last) ==
    IF key \notin DOMAIN last THEN TRUE
    ELSE LET prev == last[key] IN
         IF "severity" \notin DOMAIN prev THEN TRUE
         ELSE IF ~("active" \in DOMAIN prev /\ prev.active) THEN TRUE
         ELSE severity >= prev.severity

should_send_strict(key, severity, step, last) ==
    IF key \notin DOMAIN last THEN TRUE
    ELSE LET prev == last[key] IN
         IF "severity" \notin DOMAIN prev THEN TRUE
         ELSE IF ~("active" \in DOMAIN prev /\ prev.active) THEN TRUE
         ELSE severity > prev.severity + step

should_send(key, severity, step, last) ==
    IF key \notin DOMAIN last THEN TRUE
    ELSE LET prev == last[key] IN
         IF "severity" \notin DOMAIN prev THEN TRUE
         ELSE IF ~("active" \in DOMAIN prev /\ prev.active) THEN TRUE
         ELSE severity >= prev.severity + step

----------------------------------------------------------------------------
(* StateFile.  The file is missing, or unreadable (open fails with an      *)
(* OSError), or holds bytes that are not UTF-8, or text that is not JSON,  *)
(* or a JSON value that is not an object, or a JSON object.  A JSON object *)
(* is written as the set of its members.                                   *)

Members(d) == {<<k, d[k]>> : k \in DOMAIN d}
FromMembers(ms) ==
    [k \in {m[1] : m \in ms} |-> (CHOOSE m \in ms : m[1] = k)[2]]

\* json.dumps of the document main() saves and json.load of that text
dumps(st) == [last |-> Members(st.last), updatedAt |-> st.updatedAt]
loads(text) == [last |-> FromMembers(text.last), updatedAt |-> text.updatedAt]

Missing == [kind |-> "missing"]
JsonFile(text) == [kind |-> "json", text |-> text]

\* the exceptions load() catches
LoadCaught == {"JSONDecodeError", "OSError"}

\* what the body of load()'s try block does on a file that exists
ReadOutcome(d) ==
    CASE d.kind = "unreadable" -> [raised |-> Some("OSError")]
      [] d.kind = "badutf8"    -> [raised |-> Some("UnicodeDecodeError")]
      [] d.kind = "notjson"    -> [raised |-> Some("JSONDecodeError")]
      [] d.kind = "nondict"    -> [raised |-> None, dict |-> FALSE]
      [] d.kind = "json"       -> [raised |-> None, dict |-> TRUE,
                                   value |-> loads(d.text)]

EmptyDoc == << >>

\* StateFile.load: raised is the exception that leaves load(), if any
load(d) ==
    IF d.kind = "missing" THEN [raised |-> None, dict |-> TRUE, value |-> EmptyDoc]
    ELSE LET r == ReadOutcome(d) IN
         IF r.raised # None /\ r.raised[1] \in LoadCaught
         THEN [raised |-> None, dict |-> TRUE, value |-> EmptyDoc]
         ELSE r

\* StateFile.save: the file holds the text of the document
save(st) == JsonFile(dumps(st))

\* a file opened for writing and not written to the end: empty or cut
\* short, in both cases not JSON
Truncated == [kind |-> "notjson"]

\* the processes that may work on the state file at the same time
Procs == {1, 2}
Idle == [pc |-> "idle"]

\* a variant of TmpPath that names the state file itself
TmpPath_in_place(path) == path

\* save(): tmp = self.path.with_suffix(self.path.suffix + ".tmp")
TmpPath(path) == "tmp"

FileAt(path) == IF path = "data" THEN disk ELSE tmpf
WriteAt(path, content) ==
    IF path = "data" THEN disk' = content /\ tmpf' = tmpf
    ELSE tmpf' = content /\ disk' = disk

\* save(data), step by step, by process p
SaveBegin(p, st) ==
    /\ proc[p].pc = "idle"
    /\ proc' = [proc EXCEPT ![p] = [pc |-> "save_open", new |-> st, old |-> disk]]
    /\ UNCHANGED <<disk, tmpf>>

\* write_text opens the temporary file, which truncates it
SaveOpen(p) ==
    /\ proc[p].pc = "save_open"
    /\ WriteAt(TmpPath("data"), Truncated)
    /\ proc' = [proc EXCEPT ![p].pc = "save_write"]

\* write_text writes the text to the end and closes the file
SaveWrite(p) ==
    /\ proc[p].pc = "save_write"
    /\ WriteAt(TmpPath("data"), JsonFile(dumps(proc[p].new)))
    /\ proc' = [proc EXCEPT ![p].pc = "save_replace"]

\* tmp.replace(self.path): the rename
SaveReplace(p) ==
    /\ proc[p].pc = "save_replace"
    /\ disk' = FileAt(TmpPath("data"))
    /\ tmpf' = IF TmpPath("data") = "data" THEN tmpf ELSE Missing
    /\ proc' = [proc EXCEPT ![p].pc = "idle"]

\* json.dumps and json.loads of update(), on any JSON object
dumps_obj(data) == Members(data)
loads_obj(text) == FromMembers(text)

\* a variant of LockFree for a lock that excludes nobody
LockFree_always(holder) == TRUE

\* fcntl.flock(lock_f, LOCK_EX) returns when no other process holds the lock
LockFree(holder) == holder = None

\* update(key, value), step by step, by process p
UpdBegin(p, key, value) ==
    /\ proc[p].pc = "idle"
    /\ proc' = [proc EXCEPT ![p] = [pc |-> "upd_lock", key |-> key, value |-> value]]
    /\ UNCHANGED <<disk, lockf>>

UpdLock(p) ==
    /\ proc[p].pc = "upd_lock"
    /\ LockFree(lockf)
    /\ lockf' = Some(p)
    /\ proc' = [proc EXCEPT ![p].pc = "upd_read"]
    /\ UNCHANGED disk

\* the read of the file and data[key] = value; an exception that update()
\* does not catch leaves it through the finally clause, which unlocks
UpdRead(p) ==
    /\ proc[p].pc = "upd_read"
    /\ UNCHANGED disk
    /\ IF disk.kind \in {"badutf8", "nondict"}
       THEN /\ proc' = [proc EXCEPT ![p] = [pc |-> "upd_raised"]]
            /\ lockf' = None
       ELSE LET data == IF disk.kind = "json" THEN loads_obj(disk.text) ELSE EmptyMap
            IN  /\ proc' = [proc EXCEPT ![p] =
                              [pc |-> "upd_open", key |-> proc[p].key,
                               value |-> proc[p].value,
                               data |-> Put(data, proc[p].key, proc[p].value)]]
                /\ UNCHANGED lockf

\* self.path.write_text opens the state file itself, which truncates it
UpdOpen(p) ==
    /\ proc[p].pc = "upd_open"
    /\ disk' = Truncated
    /\ proc' = [proc EXCEPT ![p].pc = "upd_write"]
    /\ UNCHANGED lockf

UpdWrite(p) ==
    /\ proc[p].pc = "upd_write"
    /\ disk' = JsonFile(dumps_obj(proc[p].data))
    /\ proc' = [proc EXCEPT ![p].pc = "upd_unlock"]
    /\ UNCHANGED lockf

UpdUnlock(p) ==
    /\ proc[p].pc = "upd_unlock"
    /\ lockf' = None
    /\ proc' = [proc EXCEPT ![p].pc = "upd_done"]
    /\ UNCHANGED disk

\* the process dies in the middle of save(): a crash, a kill, os._exit
SaveKill(p) ==
    /\ proc[p].pc \in {"save_open", "save_write", "save_replace"}
    /\ proc' = [proc EXCEPT ![p].pc = "idle"]
    /\ UNCHANGED <<disk, tmpf>>

\* update() returns
UpdReturn(p) ==
    /\ proc[p].pc = "upd_done"
    /\ proc' = [proc EXCEPT ![p] = Idle]
    /\ UNCHANGED <<disk, lockf>>

(* load(), step by step, by process p.  Its shared lock is taken on the    *)
(* state file, which no writer locks (update() locks the .lock file and    *)
(* save() locks nothing), so flock returns at once.                        *)

\* json.load of load(), on any JSON object
load_obj(d) ==
    IF d.kind = "missing" THEN EmptyDoc
    ELSE IF d.kind = "json" THEN loads_obj(d.text)
    ELSE EmptyDoc

LoadBegin(p) ==
    /\ proc[p].pc \in {"idle", "load_done"}
    /\ proc' = [proc EXCEPT ![p] = [pc |-> "load_exists"]]
    /\ UNCHANGED <<disk, lockf>>

\* if not self.path.exists(): return {}
LoadExists(p) ==
    /\ proc[p].pc = "load_exists"
    /\ proc' = [proc EXCEPT ![p] =
                  IF disk.kind = "missing"
                  THEN [pc |-> "load_done", got |-> EmptyDoc]
                  ELSE [pc |-> "load_read"]]
    /\ UNCHANGED <<disk, lockf>>

\* open, flock(LOCK_SH), json.load, with the exceptions load() catches
LoadRead(p) ==
    /\ proc[p].pc = "load_read"
    /\ proc' = [proc EXCEPT ![p] =
                  [pc |-> "load_done", got |-> load_obj(disk)]]
    /\ UNCHANGED <<disk, lockf>>

----------------------------------------------------------------------------

(* Collaborators *)

\* a variant of holdings_snapshot whose answer to a failed fetch is not empty
holdings_snapshot_not_empty(snap) ==
    IF snap.ok THEN [holds |-> snap.holds, day_pnl |-> snap.day_pnl]
    ELSE [holds |-> <<[tkr |-> "AAPL", day_pct |-> 6]>>, day_pnl |-> 600]

\* holdings_snapshot: the list sorted by weight and the day P&L, or the
\* empty snapshot when the fetch failed or timed out
holdings_snapshot(snap) ==
    IF snap.ok THEN [holds |-> snap.holds, day_pnl |-> snap.day_pnl]
    ELSE [holds |-> << >>, day_pnl |-> 0]

\* compute_rsi_extremes_safe: the (ticker, rsi) pairs of the ten largest
\* holdings whose RSI is extreme; nothing when the computation timed out
compute_rsi_extremes_safe(holds, rsi, c) ==
    IF ~rsi.ok THEN {}
    ELSE {<<holds[i].tkr, rsi.val[holds[i].tkr]>> :
            i \in {j \in DOMAIN holds :
                     /\ j <= TOP_RANK
                     /\ holds[j].tkr \in DOMAIN rsi.val
                     /\ \/ rsi.val[holds[j].tkr] >= c.rsi_high
                        \/ rsi.val[holds[j].tkr] <= c.rsi_low}}

----------------------------------------------------------------------------
(* The evaluation steps of main().  Each takes the dict "last" and gives   *)
(* the dict after the step and the alerts the step appended.  An alert is  *)
(* the key it is about, the number its text shows (the severity, or the    *)
(* count n of "[n/3]") and the kind of its text.  The order of the alerts  *)
(* in the message is not modelled.                                         *)

EmptyRec == [hitTs |-> None, t1Count |-> 0, t2Count |-> 0]

\* variants of t2_due: one without the count cap, one without the gap
t2_due_no_cap(rec, t, hit_ts, c) == t - hit_ts >= c.l1_min_gap
t2_due_no_gap(rec, t, hit_ts, c) == rec.t2Count < L1_COUNT_CAP

\* the first tranche is announced while t1Count is below the cap
t1_open(rec) == rec.t1Count < L1_COUNT_CAP

\* the second tranche is announced once the gap since hitTs has passed,
\* while t2Count is below the cap
t2_due(rec, t, hit_ts, c) ==
    t - hit_ts >= c.l1_min_gap /\ rec.t2Count < L1_COUNT_CAP

\* Step 3: QQQ Level-1 trigger
QqqEval(last, qqq_last, t, c) ==
    LET rec0 == IF QQQ_KEY \in DOMAIN last THEN last[QQQ_KEY] ELSE EmptyRec
        rec1 == IF rec0.hitTs = None THEN [rec0 EXCEPT !.hitTs = Some(t)] ELSE rec0
        hit_ts == rec1.hitTs[1]
    IN  IF qqq_last # None /\ qqq_last[1] <= QQQ_L1_TRIGGER
        THEN IF t1_open(rec1)
             THEN [last |-> Put(last, QQQ_KEY, [rec1 EXCEPT !.t1Count = @ + 1]),
                   alerts |-> {[key |-> QQQ_KEY, val |-> rec1.t1Count + 1, tag |-> "l1"]}]
             ELSE IF t2_due(rec1, t, hit_ts, c)
             THEN [last |-> Put(last, QQQ_KEY, [rec1 EXCEPT !.t2Count = @ + 1]),
                   alerts |-> {[key |-> QQQ_KEY, val |-> rec1.t2Count + 1, tag |-> "l1_confirm"]}]
             ELSE [last |-> Put(last, QQQ_KEY, rec1), alerts |-> {}]
        ELSE [last |-> Put(last, QQQ_KEY, EmptyRec), alerts |-> {}]

\* a variant of pnl_hit that sees gains only
pnl_hit_gain_only(day_pnl, c) == day_pnl >= c.pnl_trigger

\* the condition of the day P&L trigger, for gains and losses
pnl_hit(day_pnl, c) == Abs(day_pnl) >= c.pnl_trigger

\* a variant of PnlEval that records the severity only when it alerts
PnlEval_keep_fired(last, day_pnl, t, c) ==
    IF pnl_hit(day_pnl, c)
    THEN LET sev == Abs(day_pnl)
             send == should_send(PNL_KEY, sev, c.pnl_step, last)
         IN
         [last |-> Put(last, PNL_KEY,
                       [active |-> TRUE,
                        severity |-> IF send THEN sev ELSE last[PNL_KEY].severity,
                        ts |-> t]),
          alerts |-> IF send
                     THEN {[key |-> PNL_KEY, val |-> sev,
                            tag |-> IF day_pnl > 0 THEN "pnl_gain" ELSE "pnl_loss"]}
                     ELSE {}]
    ELSE [last |-> Put(last, PNL_KEY, Cleared(t)), alerts |-> {}]

\* a variant of PnlEval whose severity keeps the sign of the day P&L
PnlEval_signed(last, day_pnl, t, c) ==
    IF pnl_hit(day_pnl, c)
    THEN [last |-> Put(last, PNL_KEY, [active |-> TRUE, severity |-> day_pnl, ts |-> t]),
          alerts |-> IF should_send(PNL_KEY, day_pnl, c.pnl_step, last)
                     THEN {[key |-> PNL_KEY, val |-> Abs(day_pnl),
                            tag |-> IF day_pnl > 0 THEN "pnl_gain" ELSE "pnl_loss"]}
                     ELSE {}]
    ELSE [last |-> Put(last, PNL_KEY, Cleared(t)), alerts |-> {}]

\* Day PnL trigger
PnlEval(last, day_pnl, t, c) ==
    IF pnl_hit(day_pnl, c)
    THEN LET sev == Abs(day_pnl) IN
         [last |-> Put(last, PNL_KEY, [active |-> TRUE, severity |-> sev, ts |-> t]),
          alerts |-> IF should_send(PNL_KEY, sev, c.pnl_step, last)
                     THEN {[key |-> PNL_KEY, val |-> sev,
                            tag |-> IF day_pnl > 0 THEN "pnl_gain" ELSE "pnl_loss"]}
                     ELSE {}]
    ELSE [last |-> Put(last, PNL_KEY, Cleared(t)), alerts |-> {}]

\* a variant of ClearStale that clears the records of every category
ClearStale_any_category(last, cats, active_keys, t) ==
    [k \in DOMAIN last |->
        IF k \notin active_keys THEN Cleared(t) ELSE last[k]]

\* a variant of ClearStale that clears nothing
ClearStale_none(last, cats, active_keys, t) == last

\* a variant of ClearStale that only drops the active flag
ClearStale_flag_only(last, cats, active_keys, t) ==
    [k \in DOMAIN last |->
        IF k.cat \in cats /\ k \notin active_keys
        THEN [active |-> FALSE, severity |-> last[k].severity, ts |-> t]
        ELSE last[k]]

\* the loops that clear the records of one category ("rsi_" or "move:")
\* whose key is not active in this run
ClearStale(last, cats, active_keys, t) ==
    [k \in DOMAIN last |->
        IF k.cat \in cats /\ k \notin active_keys THEN Cleared(t) ELSE last[k]]

\* the key and the severity of one RSI hit
RsiHitKey(h, c) == IF h[2] <= c.rsi_low THEN RsiLowKey(h[1]) ELSE RsiHighKey(h[1])
RsiHitSev(h, c) == IF h[2] <= c.rsi_low THEN c.rsi_low - h[2] ELSE h[2] - c.rsi_high

\* RSI extremes, and the clearing of the rsi_ keys that are not active
RsiEval(last, rsi_hits, t, c) ==
    LET HitOf(k) == CHOOSE h \in rsi_hits : RsiHitKey(h, c) = k
        written == {RsiHitKey(h, c) : h \in rsi_hits}
        active_keys == {RsiLowKey(h[1]) : h \in {g \in rsi_hits : g[2] <= c.rsi_low}}
                       \cup {RsiHighKey(h[1]) : h \in {g \in rsi_hits : g[2] >= c.rsi_high}}
        last1 == [k \in (DOMAIN last) \cup written |->
                    IF k \in written
                    THEN [active |-> TRUE, severity |-> RsiHitSev(HitOf(k), c),
                          ts |-> t, rsi |-> HitOf(k)[2]]
                    ELSE last[k]]
    IN  [last |-> ClearStale(last1, {"rsi_low", "rsi_high"}, active_keys, t),
         alerts |-> {[key |-> RsiHitKey(h, c), val |-> RsiHitSev(h, c),
                      tag |-> RsiHitKey(h, c).cat] :
                       h \in {g \in rsi_hits :
                                should_send(RsiHitKey(g, c), RsiHitSev(g, c), c.rsi_step, last)}}]

\* thr of the single-name move loop, for the holding of rank i
move_threshold(tkr, i, c) == IF i <= TOP_RANK THEN c.top10 ELSE c.other

\* Single-name move alerts, and the clearing of the move: keys not active
MoveEval(last, holds, t, c) ==
    LET hits == {i \in DOMAIN holds :
                   Abs(holds[i].day_pct) >= move_threshold(holds[i].tkr, i, c)}
        move_active == {MoveKey(holds[i].tkr) : i \in hits}
        RankOf(k) == CHOOSE i \in hits : MoveKey(holds[i].tkr) = k
        last1 == [k \in (DOMAIN last) \cup move_active |->
                    IF k \in move_active
                    THEN [active |-> TRUE, severity |-> Abs(holds[RankOf(k)].day_pct),
                          ts |-> t, day_pct |-> holds[RankOf(k)].day_pct,
                          rank |-> RankOf(k)]
                    ELSE last[k]]
    IN  [last |-> ClearStale(last1, {"move"}, move_active, t),
         alerts |-> {[key |-> MoveKey(holds[i].tkr), val |-> Abs(holds[i].day_pct),
                      tag |-> "move"] :
                       i \in {j \in hits :
                                should_send(MoveKey(holds[j].tkr), Abs(holds[j].day_pct),
                                            c.move_step, last)}}]

----------------------------------------------------------------------------
(* Configuration.  The defaults of main(), the same with every step 0,     *)
(* and the same with every step below 0.                                   *)

DefaultCfg ==
    [pnl_trigger |-> PNL_TRIGGER, pnl_step |-> PNL_STEP,
     rsi_high |-> RSI_HIGH, rsi_low |-> RSI_LOW, rsi_step |-> RSI_STEP,
     top10 |-> MOVE_TOP10_TRIGGER, other |-> MOVE_OTHER_TRIGGER,
     move_step |-> MOVE_STEP, l1_min_gap |-> TQQQ_L1_MIN_GAP_SECONDS]

Configs ==
    {DefaultCfg,
     [DefaultCfg EXCEPT !.pnl_step = 0, !.rsi_step = 0, !.move_step = 0],
     [DefaultCfg EXCEPT !.pnl_step = -100, !.rsi_step = -1, !.move_step = -1]}

----------------------------------------------------------------------------
(* One run of main(), from load to save, on the collaborators' answers i:  *)
(*   i.dt    seconds since the previous run                                *)
(*   i.snap  the portfolio snapshot, or a failed fetch                     *)
(*   i.rsi   the RSI of the tickers, or a timed-out computation            *)
(*   i.qqq   the QQQ last price, or None                                   *)

QqqCondition(i) == i.qqq # None /\ i.qqq[1] <= QQQ_L1_TRIGGER

\* the (key, severity) pairs of the step-policy conditions that are true
\* on the answers i: the day P&L, the day moves, the RSI extremes
TrueAt(i, c) ==
    IF ~i.snap.ok THEN {}
    ELSE LET h == i.snap.holds
             top == {j \in DOMAIN h : j <= TOP_RANK}
             seen == IF i.rsi.ok THEN {j \in top : h[j].tkr \in DOMAIN i.rsi.val} ELSE {}
             R(j) == i.rsi.val[h[j].tkr]
         IN  {<<Key("pnl", ""), Abs(i.snap.day_pnl)>> : x \in
                 {y \in {1} : Abs(i.snap.day_pnl) >= c.pnl_trigger}}
             \cup {<<Key("move", h[j].tkr), Abs(h[j].day_pct)>> : j \in
                 {n \in DOMAIN h : Abs(h[n].day_pct) >=
                     (IF n <= TOP_RANK THEN c.top10 ELSE c.other)}}
             \cup {<<Key("rsi_low", h[j].tkr), c.rsi_low - R(j)>> : j \in
                 {n \in seen : R(n) <= c.rsi_low}}
             \cup {<<Key("rsi_high", h[j].tkr), R(j) - c.rsi_high>> : j \in
                 {n \in seen : R(n) >= c.rsi_high /\ R(n) > c.rsi_low}}

KeysOf(pairs) == {p[1] : p \in pairs}

\* the scenario of day P&L values over successive runs
PnlLadder == <<600, 600, 1100, 1050>>

\* the observers after a run on answers i that emitted the alerts as
Observe(i, t, as, macro) ==
    /\ diskSeen' = disk.kind
    /\ prevAlerts' = alerts
    /\ prevExit' = exit
    /\ prevTrue' = KeysOf(TrueAt(inp, cfg))
    /\ firedBefore' =
          [k \in (DOMAIN firedBefore) \cup {a.key : a \in alerts} |->
              IF \E a \in alerts : a.key = k
              THEN (CHOOSE a \in alerts : a.key = k).val
              ELSE firedBefore[k]]
    /\ LET follows == /\ ladderPos = runs
                       /\ runs < Len(PnlLadder)
                       /\ i.snap.ok
                       /\ i.snap.day_pnl = PnlLadder[runs + 1]
       IN  /\ ladderPos' = IF follows THEN runs + 1 ELSE ladderPos
           /\ ladderFired' = IF follows /\ (\E a \in as : a.key = Key("pnl", ""))
                              THEN ladderFired \cup {runs + 1} ELSE ladderFired
    /\ IF ~macro THEN UNCHANGED <<l1Start, l1Fires, l1LastFire, l1PrevFire>>
       ELSE LET fired == \E a \in as : a.key = Key("qqq_l1", "") IN
            /\ l1Start' = IF ~QqqCondition(i) THEN None
                           ELSE IF l1Start = None THEN Some(t) ELSE l1Start
            /\ l1Fires' = IF ~QqqCondition(i) THEN 0
                           ELSE IF fired THEN l1Fires + 1 ELSE l1Fires
            /\ l1LastFire' = IF ~QqqCondition(i) THEN None
                              ELSE IF fired THEN Some(t) ELSE l1LastFire
            /\ l1PrevFire' = IF ~QqqCondition(i) THEN None
                              ELSE IF fired THEN l1LastFire ELSE l1PrevFire

Run(i) ==
    LET t == now + i.dt
        ld == load(disk)
    IN  /\ now' = t
        /\ runs' = runs + 1
        /\ inp' = i
        /\ cfg' = cfg
        /\ UNCHANGED ext
        /\ IF ld.raised # None \/ ~ld.dict
           THEN \* the exception leaves main(): nothing is saved or printed
                /\ exit' = "crash"
                /\ loaded' = EmptyMap
                /\ alerts' = {}
                /\ disk' = disk
                /\ Observe(i, t, {}, FALSE)
           ELSE LET st == ld.value
                    last0 == IF "last" \in DOMAIN st THEN st.last ELSE EmptyMap
                    snap == holdings_snapshot(i.snap)
                    rsi_hits == compute_rsi_extremes_safe(snap.holds, i.rsi, cfg)
                    q == QqqEval(last0, i.qqq, t, cfg)
                    p == PnlEval(q.last, snap.day_pnl, t, cfg)
                    r == RsiEval(p.last, rsi_hits, t, cfg)
                    m == MoveEval(r.last, snap.holds, t, cfg)
                IN  /\ exit' = "ok"
                    /\ loaded' = last0
                    /\ alerts' = q.alerts \cup p.alerts \cup r.alerts \cup m.alerts
                    /\ disk' = save([last |-> m.last, updatedAt |-> t])
                    /\ Observe(i, t, q.alerts \cup p.alerts \cup r.alerts \cup m.alerts,
                               TRUE)

\* the evaluation of main() between load and save, on the loaded dict
MainEval(last0, i, t, c) ==
    LET snap == holdings_snapshot(i.snap)
        rsi_hits == compute_rsi_extremes_safe(snap.holds, i.rsi, c)
        q == QqqEval(last0, i.qqq, t, c)
        p == PnlEval(q.last, snap.day_pnl, t, c)
        r == RsiEval(p.last, rsi_hits, t, c)
        m == MoveEval(r.last, snap.holds, t, c)
    IN  [last |-> m.last,
         alerts |-> q.alerts \cup p.alerts \cup r.alerts \cup m.alerts]

\* main() of process p up to the end of its evaluation: STATE.load() and
\* the steps that work on the loaded dict.  main() takes no lock.
RunLoad(p, i) ==
    LET t == now + i.dt
        ld == load(disk)
    IN  /\ proc[p].pc = "idle"
        /\ now' = t
        /\ runs' = runs + 1
        /\ UNCHANGED <<cfg, disk, tmpf, lockf, orig, ob, dca>>
        /\ IF ld.raised # None \/ ~ld.dict
           THEN /\ proc' = [proc EXCEPT ![p] = Idle]
                /\ inp' = i
                /\ exit' = "crash"
                /\ loaded' = EmptyMap
                /\ alerts' = {}
                /\ Observe(i, t, {}, FALSE)
           ELSE LET st == ld.value
                    last0 == IF "last" \in DOMAIN st THEN st.last ELSE EmptyMap
                    e == MainEval(last0, i, t, cfg)
                IN  /\ proc' = [proc EXCEPT ![p] =
                                  [pc |-> "run_loaded", i |-> i, t |-> t, seen |-> disk,
                                   loaded |-> last0, last |-> e.last, al |-> e.alerts]]
                    /\ UNCHANGED <<inp, loaded, alerts, exit, obs>>

\* main() of process p from STATE.save(st) to the print of its alerts
RunSave(p) ==
    /\ proc[p].pc = "run_loaded"
    /\ disk' = save([last |-> proc[p].last, updatedAt |-> proc[p].t])
    /\ proc' = [proc EXCEPT ![p] = Idle]
    /\ inp' = proc[p].i
    /\ exit' = "ok"
    /\ loaded' = proc[p].loaded
    /\ alerts' = proc[p].al
    /\ Observe(proc[p].i, proc[p].t, proc[p].al, FALSE)
    /\ UNCHANGED <<cfg, now, runs, tmpf, lockf, orig, ob, dca>>

\* The threads of one run.  The main thread goes through its fetches, each
\* run in a daemon thread that the main thread joins with a timeout; the
\* watchdog thread sleeps ALERT_TIMEOUT seconds and then ends the process.
\* Time is the wall clock "now", in seconds.

Fetches == {"snapshot", "rsi", "qqq_lp", "qqq_yf", "supplement"}

FetchTimeoutOf(pc) ==
    CASE pc = "snapshot" -> SNAPSHOT_TIMEOUT
      [] pc = "rsi" -> RSI_TIMEOUT
      [] pc = "qqq_lp" -> QQQ_LP_TIMEOUT
      [] pc = "qqq_yf" -> QQQ_YF_TIMEOUT
      [] pc = "supplement" -> SUPPLEMENT_TIMEOUT

\* where the main thread goes after a fetch that gave a value (got) or gave
\* the default
AfterFetch(pc, got) ==
    CASE pc = "snapshot" -> "rsi"
      [] pc = "rsi" -> "qqq_lp"
      [] pc = "qqq_lp" -> IF got THEN "save" ELSE "qqq_yf"
      [] pc = "qqq_yf" -> "save"
      [] pc = "supplement" -> "print"

\* a variant of WatchdogDue for a watchdog that never wakes
WatchdogDue_never(elapsed) == FALSE

\* _watchdog: time.sleep(deadline_s) has returned
WatchdogDue(elapsed) == elapsed >= ALERT_TIMEOUT

Elapsed == now - proc[1].t0

\* main() starts the watchdog thread and enters its first fetch
MainStart ==
    /\ proc[1].pc = "idle"
    /\ proc' = [proc EXCEPT ![1] =
                  [pc |-> "snapshot", t0 |-> now, since |-> now, by |-> "nobody"]]
    /\ UNCHANGED now

\* the fetch returns in time, with a value or not
FetchReturn(got) ==
    /\ proc[1].pc \in Fetches
    /\ now - proc[1].since < FetchTimeoutOf(proc[1].pc)
    /\ proc' = [proc EXCEPT ![1].pc = AfterFetch(proc[1].pc, got), ![1].since = now]
    /\ UNCHANGED now

\* t.join(timeout_s) returns although the fetch has not
FetchTimeout ==
    /\ proc[1].pc \in Fetches
    /\ now - proc[1].since >= FetchTimeoutOf(proc[1].pc)
    /\ proc' = [proc EXCEPT ![1].pc = AfterFetch(proc[1].pc, FALSE), ![1].since = now]
    /\ UNCHANGED now

\* the evaluation and STATE.save(st); with alerts the supplement is fetched
MainSave(some_alerts) ==
    /\ proc[1].pc = "save"
    /\ proc' = [proc EXCEPT ![1].pc = IF some_alerts THEN "supplement" ELSE "print",
                            ![1].since = now]
    /\ UNCHANGED now

\* print and return: the interpreter exits with code 0
MainExit ==
    /\ proc[1].pc = "print"
    /\ proc' = [proc EXCEPT ![1].pc = "exited", ![1].by = "main"]
    /\ UNCHANGED now

\* _watchdog: os._exit(0), wherever the main thread is
WatchdogFire ==
    /\ proc[1].pc \notin {"idle", "exited"}
    /\ WatchdogDue(Elapsed)
    /\ proc' = [proc EXCEPT ![1] = [pc |-> "exited", t0 |-> proc[1].t0,
                                   since |-> proc[1].since, by |-> "watchdog",
                                   at |-> proc[1].pc]]
    /\ UNCHANGED now

\* a second passes while the process runs
Tick ==
    /\ proc[1].pc \notin {"idle", "exited"}
    /\ Elapsed < MaxElapsed
    /\ now' = now + 1
    /\ UNCHANGED proc

\* One run of main(), stage by stage, with its watchdog.  Time passes only
\* while the main thread waits for a fetch, and a fetch takes at most its
\* timeout; everything else takes no time.

StageFetches == {"snapshot", "rsi", "qqq", "supplement"}

StageTimeout(pc) ==
    CASE pc = "snapshot" -> SNAPSHOT_TIMEOUT
      [] pc = "rsi" -> RSI_TIMEOUT
      [] pc = "qqq" -> QQQ_LP_TIMEOUT + QQQ_YF_TIMEOUT
      [] pc = "supplement" -> SUPPLEMENT_TIMEOUT

\* a variant of StageAfter that prints before it saves
StageAfter_print_first(pc, some_alerts) ==
    CASE pc = "snapshot" -> "rsi"
      [] pc = "rsi" -> "qqq"
      [] pc = "qqq" -> "eval_qqq"
      [] pc = "eval_qqq" -> "eval_pnl"
      [] pc = "eval_pnl" -> "eval_rsi"
      [] pc = "eval_rsi" -> "eval_move"
      [] pc = "eval_move" -> IF some_alerts THEN "supplement" ELSE "print"
      [] pc = "supplement" -> "print"
      [] pc = "print" -> "save"
      [] pc = "save" -> "exited"

\* the stage of main() that follows the stage pc
StageAfter(pc, some_alerts) ==
    CASE pc = "snapshot" -> "rsi"
      [] pc = "rsi" -> "qqq"
      [] pc = "qqq" -> "eval_qqq"
      [] pc = "eval_qqq" -> "eval_pnl"
      [] pc = "eval_pnl" -> "eval_rsi"
      [] pc = "eval_rsi" -> "eval_move"
      [] pc = "eval_move" -> "save"
      [] pc = "save" -> IF some_alerts THEN "supplement" ELSE "print"
      [] pc = "supplement" -> "print"
      [] pc = "print" -> "exited"

\* main() starts the watchdog, loads the state and enters its first fetch
StLoad(i) ==
    LET ld == load(disk) IN
    /\ proc[1].pc = "idle"
    /\ UNCHANGED <<disk, now>>
    /\ IF ld.raised # None \/ ~ld.dict
       THEN proc' = [proc EXCEPT ![1] = [pc |-> "exited", by |-> "exception",
                                         log |-> <<"load">>, al |-> {}, out |-> None]]
       ELSE LET st == ld.value
                last0 == IF "last" \in DOMAIN st THEN st.last ELSE EmptyMap
            IN  proc' = [proc EXCEPT ![1] =
                           [pc |-> "snapshot", i |-> i, t0 |-> now, since |-> now,
                            t |-> now, loaded |-> last0, last |-> last0, al |-> {},
                            log |-> <<"load">>, by |-> "nobody", out |-> None]]

\* the fetch returns, or its join times out
StFetchDone ==
    /\ proc[1].pc \in StageFetches
    /\ proc' = [proc EXCEPT ![1].pc = StageAfter(proc[1].pc, proc[1].al # {}),
                            ![1].since = now, ![1].t = now]
    /\ UNCHANGED <<disk, now>>

\* one of the four evaluations, on the dict in memory
StEval ==
    /\ proc[1].pc \in {"eval_qqq", "eval_pnl", "eval_rsi", "eval_move"}
    /\ LET me == proc[1]
           snap == holdings_snapshot(me.i.snap)
           e == CASE me.pc = "eval_qqq" -> QqqEval(me.last, me.i.qqq, me.t, cfg)
                  [] me.pc = "eval_pnl" -> PnlEval(me.last, snap.day_pnl, me.t, cfg)
                  [] me.pc = "eval_rsi" ->
                       RsiEval(me.last,
                               compute_rsi_extremes_safe(snap.holds, me.i.rsi, cfg),
                               me.t, cfg)
                  [] me.pc = "eval_move" -> MoveEval(me.last, snap.holds, me.t, cfg)
       IN  proc' = [proc EXCEPT ![1].pc = StageAfter(me.pc, me.al # {}),
                               ![1].last = e.last,
                               ![1].al = me.al \cup e.alerts,
                               ![1].log = Append(me.log, me.pc)]
    /\ UNCHANGED <<disk, now>>

\* st["updatedAt"] = now; STATE.save(st)
StSave ==
    /\ proc[1].pc = "save"
    /\ disk' = save([last |-> proc[1].last, updatedAt |-> proc[1].t])
    /\ proc' = [proc EXCEPT ![1].pc = StageAfter("save", proc[1].al # {}),
                            ![1].since = now,
                            ![1].log = Append(proc[1].log, "save")]
    /\ UNCHANGED now

\* print(...) and return
StPrint ==
    /\ proc[1].pc = "print"
    /\ proc' = [proc EXCEPT ![1].pc = StageAfter("print", proc[1].al # {}),
                            ![1].out = Some(proc[1].al),
                            ![1].by = IF StageAfter("print", proc[1].al # {}) = "exited"
                                      THEN "main" ELSE "nobody",
                            ![1].log = Append(proc[1].log, "print")]
    /\ UNCHANGED <<disk, now>>

\* _watchdog: os._exit(0), wherever the main thread is
StWatchdog ==
    /\ proc[1].pc \notin {"idle", "exited"}
    /\ WatchdogDue(now - proc[1].t0)
    /\ proc' = [proc EXCEPT ![1].pc = "exited", ![1].by = "watchdog"]
    /\ UNCHANGED <<disk, now>>

\* a second passes while the main thread waits for a fetch
StTick ==
    /\ proc[1].pc \in StageFetches
    /\ now - proc[1].since < StageTimeout(proc[1].pc)
    /\ now' = now + 1
    /\ UNCHANGED <<disk, proc>>

----------------------------------------------------------------------------
(* The option buyback monitor (option_buyback_monitor.py).  Prices are in  *)
(* cents, reset_pct in percent.                                            *)

\* the targets of config.json: two targets on one contract
Targets ==
    {[name |-> "target1", trigger_price |-> 100, reset_pct |-> RESET_PCT, qty |-> 1],
     [name |-> "target2", trigger_price |-> 50, reset_pct |-> RESET_PCT, qty |-> 2]}
TargetNames == {t.name : t \in Targets}
TargetOf(n) == CHOOSE t \in Targets : t.name = n

Quote(bid, ask, last) == [bid |-> bid, ask |-> ask, last |-> last]
NoQuote == Quote(None, None, None)

\* the reference price: last, else the mid of bid and ask, else bid, else ask
RefPrice(q) ==
    IF q.last # None /\ q.last[1] > 0 THEN q.last
    ELSE IF q.bid # None /\ q.ask # None /\ q.bid[1] > 0 /\ q.ask[1] > 0
         THEN Some((q.bid[1] + q.ask[1]) \div 2)
    ELSE IF q.bid # None /\ q.bid[1] > 0 THEN q.bid
    ELSE IF q.ask # None /\ q.ask[1] > 0 THEN q.ask
    ELSE None

\* ref > trigger_price * (1 + reset_pct)
AboveReset(ref, t) ==
    ref # None /\ ref[1] * 100 > t.trigger_price * (100 + t.reset_pct)

\* Auto-reset: the targets of done that stay in it
AutoReset(done, ref) ==
    [n \in {x \in DOMAIN done :
               ~(\E t \in Targets : t.name = x /\ AboveReset(ref, t))} |-> done[n]]

\* Check triggers: the targets to alert
CheckTriggers(done, ref) ==
    {t \in Targets : t.name \notin DOMAIN done /\ ref # None /\ ref[1] <= t.trigger_price}

\* a variant of MarkAlerted that records nothing
MarkAlerted_none(done, hits, ref, t) == done

\* Mark as alerted
MarkAlerted(done, hits, ref, t) ==
    [n \in (DOMAIN done) \cup {h.name : h \in hits} |->
        IF \E h \in hits : h.name = n
        THEN [alertedAt |-> t, trigger |-> TargetOf(n).trigger_price,
              qty |-> TargetOf(n).qty, ref |-> ref[1]]
        ELSE done[n]]

\* the document of the buyback state file, as text and back
ob_dumps(st) == [done |-> Members(st.done), lastQuote |-> st.lastQuote]
ob_loads(text) == [done |-> FromMembers(text.done), lastQuote |-> text.lastQuote]

\* one run of main() of the buyback monitor on the quote q
ObRun(q) ==
    LET t == now + 60
        st == IF obDisk.kind = "json" THEN ob_loads(obDisk.text) ELSE EmptyDoc
        done0 == IF "done" \in DOMAIN st THEN st.done ELSE EmptyMap
        ref == RefPrice(q)
        done1 == AutoReset(done0, ref)
        hits == CheckTriggers(done1, ref)
        done2 == IF hits = {} THEN done1 ELSE MarkAlerted(done1, hits, ref, t)
        cur == [n \in TargetNames |->
                  IF obHist[n] = "alerted" /\ AboveReset(ref, TargetOf(n))
                  THEN "rearmed" ELSE obHist[n]]
    IN  /\ now' = t
        /\ obRuns' = obRuns + 1
        /\ obQuote' = q
        /\ obAlerts' = {h.name : h \in hits}
        /\ obDisk' = JsonFile(ob_dumps(
                         [done |-> done2,
                          lastQuote |-> [ts |-> t, bid |-> q.bid, ask |-> q.ask,
                                         last |-> q.last, ref |-> ref]]))
        /\ obWas' = obHist
        /\ obHist' = [n \in TargetNames |->
                         IF \E h \in hits : h.name = n THEN "alerted" ELSE cur[n]]
        /\ UNCHANGED <<cfg, disk, runs, inp, loaded, alerts, exit, obs,
                       tmpf, lockf, proc, orig, dca>>

----------------------------------------------------------------------------
(* The DCA proposal (dca_proposal_tg.py).  Money is in cents, allocation   *)
(* weights in percent.                                                     *)

Min(a, b) == IF a <= b THEN a ELSE b

\* a variant of Shares that rounds to the nearest number of shares
Shares_round(budget, w, bid) == (2 * budget * w + 100 * bid) \div (200 * bid)

\* sh = math.floor(amt / bid), with amt = budget * w
Shares(budget, w, bid) == (budget * w) \div (100 * bid)

RECURSIVE SumEst(_, _)
SumEst(orders, tkrs) ==
    IF tkrs = {} THEN 0
    ELSE LET x == CHOOSE y \in tkrs : TRUE
         IN  orders[x].est + SumEst(orders, tkrs \ {x})

\* main() of the proposal on the configuration, the cash of the two
\* brokers and the bid of every ticker of the allocation (or None)
Proposal(i) ==
    LET use_cash == IF i.lp_cash >= i.mm_cash THEN i.lp_cash ELSE i.mm_cash
        budget == Min(Min(i.daily_budget, i.max_budget), use_cash)
        plan == DOMAIN i.allocation
        missing == {x \in plan : i.bid[x] = None}
        sh(x) == Shares(budget, i.allocation[x], i.bid[x][1])
        skipped == {x \in plan \ missing : sh(x) <= 0}
        buys == plan \ (missing \cup skipped)
        orders == [x \in buys |-> [sh |-> sh(x), est |-> sh(x) * i.bid[x][1]]]
    IN  [use |-> IF i.lp_cash >= i.mm_cash THEN "LongPort" ELSE "moomoo",
         budget |-> budget, missing |-> missing, skipped |-> skipped,
         orders |-> orders, total_est |-> SumEst(orders, buys)]

DcaRun(i) ==
    /\ dcaIn' = i
    /\ dcaOut' = Proposal(i)
    /\ UNCHANGED <<cfg, disk, now, runs, inp, loaded, alerts, exit, obs,
                   tmpf, lockf, proc, orig, ob>>

\* the state file is damaged or removed between two runs
Tamper(kind) ==
    /\ disk.kind # kind
    /\ disk' = [kind |-> kind]
    /\ UNCHANGED <<cfg, now, runs, inp, loaded, alerts, exit, obs, ext>>

----------------------------------------------------------------------------
(* The collaborators' answers *)

Holding(tkr, day_pct) == [tkr |-> tkr, day_pct |-> day_pct]

\* ten holdings that do not move, larger than the ones after them
Fillers ==
    [n \in 1..10 |->
        Holding(<<"F01", "F02", "F03", "F04", "F05", "F06", "F07", "F08",
                  "F09", "F10">>[n], 0)]

SnapFail == [ok |-> FALSE]
Snap(day_pnl, holds) == [ok |-> TRUE, day_pnl |-> day_pnl, holds |-> holds]
RsiFail == [ok |-> FALSE]
Rsi(val) == [ok |-> TRUE, val |-> val]
NoRsi == Rsi(<< >>)
RsiOf(tkr, v) == Rsi([x \in {tkr} |-> v])

Input(dt, snap, rsi, qqq) == [dt |-> dt, snap |-> snap, rsi |-> rsi, qqq |-> qqq]

QuietInput == Input(60, SnapFail, RsiFail, None)

\* every category, on one ticker: (day P&L, day move, RSI), each category
\* varying alone and a few answers where several conditions are true
StepScenes ==
    ({0, 600, 1100} \X {2} \X {50})
    \cup ({0} \X {6, 7} \X {50})
    \cup ({0} \X {2} \X {18, 17, 16, 82})
    \cup {<<600, 6, 18>>, <<600, 7, 17>>, <<600, 6, 16>>, <<1100, 6, 82>>}

StepInputs ==
    {Input(60, SnapFail, NoRsi, None)} \cup
    {Input(60, Snap(s[1], <<Holding("AAPL", s[2])>>), RsiOf("AAPL", s[3]), None) :
        s \in StepScenes}

\* the day P&L alone
PnlInputs ==
    {Input(60, Snap(pnl, << >>), NoRsi, None) :
        pnl \in {0, 400, 600, -600, 1050, 1100, -1100, 1600}}

\* day moves of a plain and of a leveraged holding, among the ten largest
\* holdings or behind them
MoveInputs ==
    {Input(60, Snap(0, pre \o <<Holding("AAPL", a), Holding("TQQQ", q)>>), NoRsi, None) :
        pre \in {<< >>, Fillers}, a \in {4, -6, 12}, q \in {4, 10, -16}}

\* the QQQ price alone, one minute, one day or two days after the last run
MacroInputs ==
    {Input(dt, SnapFail, RsiFail, q) :
        dt \in {60, 86400, 172800}, q \in {None, Some(560), Some(600)}}

\* every category answering or failing, independently of the others
IsoInputs ==
    {Input(60, s, r, q) :
        s \in {SnapFail, Snap(600, <<Holding("AAPL", 6)>>),
               Snap(1100, <<Holding("AAPL", 7)>>)},
        r \in {RsiFail, RsiOf("AAPL", 18), RsiOf("AAPL", 16)},
        q \in {None, Some(560)}}

\* the day P&L, for runs that overlap
OverlapInputs ==
    {Input(60, Snap(pnl, << >>), NoRsi, None) : pnl \in {0, 600, 1100}}

\* configurations, cash balances and bids of the proposal
DcaInput(daily, max, lp, mm, alloc, bq, bv) ==
    [daily_budget |-> daily, max_budget |-> max, lp_cash |-> lp, mm_cash |-> mm,
     allocation |-> alloc,
     bid |-> [x \in DOMAIN alloc |-> IF x = "QQQ" THEN bq ELSE bv]]
Allocations ==
    {[x \in {"QQQ", "VOO"} |-> IF x = "QQQ" THEN 70 ELSE 30],
     [x \in {"QQQ", "VOO"} |-> IF x = "QQQ" THEN 50 ELSE 30],
     [x \in {"QQQ"} |-> 100]}
DcaDefault == DcaInput(200000, 500000, 0, 0, CHOOSE a \in Allocations : a["QQQ"] = 70,
                       None, None)
DcaInputs ==
    {DcaInput(daily, 500000, lp, mm, alloc, bq, bv) :
        daily \in {200000, 600000}, lp \in {-10000, 0, 150000, 1000000},
        mm \in {-5000, 0, 300000}, alloc \in Allocations,
        bq \in {None, Some(45025), Some(50000), Some(160000)},
        bv \in {None, Some(50010)}}

\* answers with and without alerts, for the run followed stage by stage
StageInputs ==
    {QuietInput,
     Input(60, Snap(600, <<Holding("AAPL", 6)>>), RsiOf("AAPL", 18), None),
     Input(60, SnapFail, RsiFail, Some(560))}

\* a few answers of every category, for the runs on a damaged state file
FileInputs ==
    {Input(60, Snap(pnl, <<Holding("AAPL", dp)>>), RsiOf("AAPL", r), None) :
        pnl \in {0, 600}, dp \in {2, 6}, r \in {50, 18}}

----------------------------------------------------------------------------
(* Specifications *)

InitRest ==
    /\ cfg \in Configs
    /\ now = 1700000000
    /\ runs = 0
    /\ inp = QuietInput
    /\ loaded = EmptyMap
    /\ alerts = {}
    /\ exit = "none"
    /\ diskSeen = "missing"
    /\ prevAlerts = {}
    /\ prevExit = "none"
    /\ prevTrue = {}
    /\ firedBefore = EmptyMap
    /\ ladderPos = 0
    /\ ladderFired = {}
    /\ l1Start = None
    /\ l1Fires = 0
    /\ l1LastFire = None
    /\ l1PrevFire = None
    /\ tmpf = Missing
    /\ lockf = None
    /\ proc = [p \in Procs |-> Idle]
    /\ orig = disk
    /\ obDisk = Missing
    /\ obQuote = NoQuote
    /\ obAlerts = {}
    /\ obRuns = 0
    /\ obHist = [n \in TargetNames |-> "fresh"]
    /\ obWas = [n \in TargetNames |-> "fresh"]
    /\ dcaIn = DcaDefault
    /\ dcaOut = Proposal(DcaDefault)

\* no state file yet
Init == disk = Missing /\ InitRest

Next == \E i \in StepInputs : runs < MaxRuns /\ Run(i)
Spec == Init /\ [][Next]_vars

NextPnl == \E i \in PnlInputs : runs < MaxPnlRuns /\ Run(i)
SpecPnl == Init /\ [][NextPnl]_vars

NextMove == \E i \in MoveInputs : runs < MaxRuns /\ Run(i)
SpecMove == Init /\ [][NextMove]_vars

NextMacro == \E i \in MacroInputs : runs < MaxMacroRuns /\ Run(i)
SpecMacro == Init /\ [][NextMacro]_vars

NextIso == \E i \in IsoInputs : runs < MaxRuns /\ Run(i)
SpecIso == Init /\ [][NextIso]_vars

\* runs of two processes, started by the scheduler whether or not the run
\* before has ended
NextOverlap ==
    \/ \E p \in Procs : \E i \in OverlapInputs : runs < MaxOverlapRuns /\ RunLoad(p, i)
    \/ \E p \in Procs : RunSave(p)
SpecOverlap == Init /\ [][NextOverlap]_vars

\* the documents of a few runs
SaveDocs ==
    {[last |-> EmptyMap, updatedAt |-> 1700000060],
     [last |-> Put(EmptyMap, PNL_KEY, [active |-> TRUE, severity |-> 600, ts |-> 1700000120]),
      updatedAt |-> 1700000120],
     [last |-> Put(EmptyMap, PNL_KEY, [active |-> TRUE, severity |-> 1100, ts |-> 1700000180]),
      updatedAt |-> 1700000180],
     [last |-> Put(EmptyMap, PNL_KEY, Cleared(1700000240)), updatedAt |-> 1700000240]}

\* one process saves, again and again, and may die at every step
NextSave ==
    /\ \/ \E st \in SaveDocs : SaveBegin(1, st)
       \/ SaveOpen(1)
       \/ SaveWrite(1)
       \/ SaveReplace(1)
       \/ SaveKill(1)
    /\ UNCHANGED <<cfg, now, runs, inp, loaded, alerts, exit, obs, lockf, orig, ob, dca>>
SpecSave == Init /\ [][NextSave]_vars

\* valid state files, and the update each process makes: different keys,
\* new or already present
UpdateFiles ==
    {JsonFile(dumps_obj([k \in {"a"} |-> 0])),
     JsonFile(dumps_obj([k \in {"a", "k1"} |-> 0])),
     JsonFile(dumps_obj([k \in {"a", "k1", "k2"} |-> 0]))}
UpdateKeys == [p \in Procs |-> IF p = 1 THEN {"k1"} ELSE {"k2", "b"}]
UpdateValues == {1, 2}

InitUpdate == disk \in UpdateFiles /\ InitRest

NextUpdate ==
    /\ \E p \in Procs :
          \/ \E key \in UpdateKeys[p] : \E value \in UpdateValues : UpdBegin(p, key, value)
          \/ UpdLock(p)
          \/ UpdRead(p)
          \/ UpdOpen(p)
          \/ UpdWrite(p)
          \/ UpdUnlock(p)
    /\ UNCHANGED <<cfg, now, runs, inp, loaded, alerts, exit, obs, tmpf, orig, ob, dca>>
SpecUpdate == InitUpdate /\ [][NextUpdate]_vars

\* process 1 updates the state file, again and again, while process 2
\* loads it, again and again
Writer == 1
Reader == 2
NextRead ==
    /\ \/ \E key \in UpdateKeys[Writer] :
             \E value \in UpdateValues : UpdBegin(Writer, key, value)
       \/ UpdLock(Writer)
       \/ UpdRead(Writer)
       \/ UpdOpen(Writer)
       \/ UpdWrite(Writer)
       \/ UpdUnlock(Writer)
       \/ UpdReturn(Writer)
       \/ LoadBegin(Reader)
       \/ LoadExists(Reader)
       \/ LoadRead(Reader)
    /\ UNCHANGED <<cfg, now, runs, inp, loaded, alerts, exit, obs, tmpf, orig, ob, dca>>
SpecRead == InitUpdate /\ [][NextRead]_vars

\* one run with its watchdog.  Nothing is assumed about the progress of
\* the main thread, which may be stuck in I/O; the clock advances and the
\* watchdog thread, once its sleep is over, runs.
WatchRest == UNCHANGED <<cfg, disk, runs, inp, loaded, alerts, exit, obs, tmpf, lockf, orig, ob, dca>>
NextWatch ==
    \/ MainStart /\ WatchRest
    \/ (\E got \in BOOLEAN : FetchReturn(got)) /\ WatchRest
    \/ FetchTimeout /\ WatchRest
    \/ (\E some_alerts \in BOOLEAN : MainSave(some_alerts)) /\ WatchRest
    \/ MainExit /\ WatchRest
    \/ WatchdogFire /\ WatchRest
    \/ Tick /\ WatchRest
SpecWatch == Init /\ [][NextWatch]_vars
SpecWatchFair ==
    SpecWatch /\ WF_vars(Tick /\ WatchRest) /\ WF_vars(WatchdogFire /\ WatchRest)

StageRest ==
    UNCHANGED <<cfg, runs, inp, loaded, alerts, exit, obs, tmpf, lockf, orig, ob, dca>>
NextStage ==
    \/ (\E i \in StageInputs : StLoad(i)) /\ StageRest
    \/ StFetchDone /\ StageRest
    \/ StEval /\ StageRest
    \/ StSave /\ StageRest
    \/ StPrint /\ StageRest
    \/ StWatchdog /\ StageRest
    \/ StTick /\ StageRest
SpecStage == Init /\ [][NextStage]_vars

NextDca == \E i \in DcaInputs : DcaRun(i)
SpecDca == Init /\ [][NextDca]_vars

\* quotes of the option: no quote, a last price, or only bid and ask
ObQuotes ==
    {NoQuote, Quote(Some(60), Some(80), None), Quote(Some(125), None, Some(0))}
    \cup {Quote(None, None, Some(x)) : x \in {40, 100, 110, 121}}

NextOb == \E q \in ObQuotes : obRuns < MaxObRuns /\ ObRun(q)
SpecOb == Init /\ [][NextOb]_vars

RunFile == \E i \in FileInputs : runs < MaxRuns /\ Run(i)
TamperFile ==
    \E kind \in {"missing", "unreadable", "badutf8", "notjson", "nondict"} :
        runs < MaxRuns /\ Tamper(kind)
NextFile == RunFile \/ TamperFile
SpecFile == Init /\ [][NextFile]_vars

----------------------------------------------------------------------------
(* Claims.  They speak of the latest run through the answers it got (inp), *)
(* the state it loaded (loaded) and the alerts it emitted (alerts).        *)

TrueNow == TrueAt(inp, cfg)
Fired(k) == \E a \in alerts : a.key = k
FiredAt(k, v) == \E a \in alerts : a.key = k /\ a.val = v
IsStepKey(k) == k.cat \in {"pnl", "move", "rsi_low", "rsi_high"}
StepFor(k) ==
    CASE k.cat = "pnl" -> cfg.pnl_step
      [] k.cat = "move" -> cfg.move_step
      [] OTHER -> cfg.rsi_step

\* C1: a key (pnl, move:<ticker>, rsi_low:<ticker>, rsi_high:<ticker>) that
\* has no record in the loaded state and whose condition is true in the run
\* gets an alert in that run, at its severity, whatever the step is.
C1_FirstOccurrenceFires ==
    exit = "ok" =>
        \A p \in TrueNow : p[1] \notin DOMAIN loaded => FiredAt(p[1], p[2])

C1_Witness ==
    /\ exit = "ok"
    /\ \E p, q, r \in TrueNow :
        /\ p[1].cat = "pnl" /\ q[1].cat = "move" /\ r[1].cat = "rsi_high"
        /\ {p[1], q[1], r[1]} \cap DOMAIN loaded = {}
        /\ FiredAt(p[1], p[2]) /\ FiredAt(q[1], q[2]) /\ FiredAt(r[1], r[2])

\* C2: with a step above 0, when the run before the latest emitted an alert
\* for a key at severity V and the latest run, started afresh on the state
\* that run saved, finds the condition true at the same severity V, the
\* latest run emits no alert for the key.
C2_NoRepeatAtSameLevel ==
    exit = "ok" =>
        \A a \in prevAlerts :
            (IsStepKey(a.key) /\ StepFor(a.key) > 0 /\ <<a.key, a.val>> \in TrueNow)
                => ~Fired(a.key)

C2_Witness ==
    /\ exit = "ok"
    /\ \E a \in prevAlerts :
        /\ IsStepKey(a.key) /\ StepFor(a.key) > 0
        /\ <<a.key, a.val>> \in TrueNow
        /\ ~Fired(a.key)

\* C3: when the run before the latest emitted an alert for a key at severity
\* V and the condition is true in the latest run, the latest run emits an
\* alert for the key exactly when its severity is at least V plus the step.
C3_EscalationCrossing ==
    exit = "ok" =>
        \A a \in prevAlerts : \A p \in TrueNow :
            (IsStepKey(a.key) /\ p[1] = a.key)
                => (Fired(a.key) <=> p[2] >= a.val + StepFor(a.key))

C3_Witness ==
    /\ exit = "ok"
    /\ \E a \in prevAlerts : \E p \in TrueNow :
        /\ IsStepKey(a.key) /\ p[1] = a.key /\ StepFor(a.key) > 0
        /\ p[2] = a.val + StepFor(a.key)
        /\ FiredAt(a.key, p[2])
    /\ \E a \in prevAlerts : \E p \in TrueNow :
        /\ IsStepKey(a.key) /\ p[1] = a.key
        /\ p[2] > a.val /\ p[2] < a.val + StepFor(a.key)
        /\ ~Fired(a.key)

\* C4: a key that had an alert in some earlier run, and whose condition the
\* run before the latest found false, gets an alert in the latest run when
\* its condition is true again, also at a severity below that of its last
\* alert.
C4_ResetReArms ==
    (exit = "ok" /\ prevExit = "ok") =>
        \A p \in TrueNow :
            (p[1] \in DOMAIN firedBefore /\ p[1] \notin prevTrue)
                => FiredAt(p[1], p[2])

C4_Witness ==
    /\ exit = "ok" /\ prevExit = "ok"
    /\ \E p \in TrueNow :
        /\ p[1] \in DOMAIN firedBefore /\ p[1] \notin prevTrue
        /\ p[1] \in DOMAIN loaded /\ ~loaded[p[1]].active
        /\ StepFor(p[1]) > 0
        /\ p[2] < firedBefore[p[1]]
        /\ FiredAt(p[1], p[2])

\* C5: a run emits a P&L alert exactly when |day_pnl| is at least the
\* trigger and the pnl key is not active in the loaded state or |day_pnl| is
\* at least pnl_step above the loaded severity; with the trigger and the step
\* at 500, runs with day P&L 600, 600, 1100, 1050 from a fresh state file
\* emit a P&L alert in the first and the third run only.
C5_PnlLadder ==
    /\ exit = "ok" =>
        LET k == Key("pnl", "")
            pnl == IF inp.snap.ok THEN Abs(inp.snap.day_pnl) ELSE 0
        IN  Fired(k) <=>
                /\ pnl >= cfg.pnl_trigger
                /\ \/ k \notin DOMAIN loaded
                   \/ ~loaded[k].active
                   \/ pnl >= loaded[k].severity + cfg.pnl_step
    /\ (cfg.pnl_trigger = 500 /\ cfg.pnl_step = 500) =>
        ladderFired = {1, 3} \cap (1..ladderPos)

C5_Witness ==
    /\ cfg.pnl_trigger = 500 /\ cfg.pnl_step = 500
    /\ ladderPos = 4 /\ runs = 4
    /\ ladderFired = {1, 3}
    /\ inp.snap.day_pnl = 1050 /\ loaded[Key("pnl", "")].severity = 1100
    /\ ~Fired(Key("pnl", ""))

\* C6: a price-move alert for a holding that is a recognized leveraged
\* instrument with multiplier m is raised only when |day change| is at least
\* |m| times the base threshold T of its rank; for every other holding the
\* threshold is T.
C6_LeveragedThresholdWidening ==
    (exit = "ok" /\ inp.snap.ok) =>
        \A j \in DOMAIN inp.snap.holds :
            LET h == inp.snap.holds[j]
                T == IF j <= TOP_RANK THEN cfg.top10 ELSE cfg.other
                eff == IF h.tkr \in DOMAIN LEVERAGED_ETFS
                       THEN Abs(LEVERAGED_ETFS[h.tkr]) * T ELSE T
            IN  Fired(Key("move", h.tkr)) => Abs(h.day_pct) >= eff

\* C7: the overbought ladder of a ticker follows the step policy on its own
\* record rsi_high:<ticker>, whatever the record rsi_low:<ticker> holds; a
\* ticker that had an oversold alert in an earlier run and that the latest
\* run finds overbought, when the run before did not, gets the overbought
\* alert.
C7_IndependentRsiLadders ==
    exit = "ok" =>
        \A p \in TrueNow :
            p[1].cat = "rsi_high" =>
                LET k == p[1]
                    low == Key("rsi_low", k.tkr)
                IN  /\ Fired(k) <=>
                           \/ k \notin DOMAIN loaded
                           \/ ~loaded[k].active
                           \/ p[2] >= loaded[k].severity + cfg.rsi_step
                    /\ (low \in DOMAIN firedBefore /\ prevExit = "ok" /\ k \notin prevTrue)
                           => FiredAt(k, p[2])

C7_Witness ==
    /\ exit = "ok" /\ prevExit = "ok"
    /\ \E p \in TrueNow :
        LET k == p[1]
            low == Key("rsi_low", k.tkr)
        IN  /\ k.cat = "rsi_high"
            /\ low \in prevTrue /\ low \in DOMAIN firedBefore
            /\ low \in DOMAIN loaded /\ loaded[low].active
            /\ cfg.rsi_step > 0
            /\ p[2] < loaded[low].severity + cfg.rsi_step
            /\ FiredAt(k, p[2])

\* C8: load() does not raise and returns the empty document when the state
\* file is missing, unreadable or holds invalid content, and the run that
\* follows ends normally with an alert for every condition that is true.
C8_CorruptStateIsEmptyState ==
    /\ disk.kind \in {"missing", "unreadable", "badutf8", "notjson"} =>
        /\ load(disk).raised = None
        /\ load(disk).dict
        /\ load(disk).value = EmptyDoc
    /\ (exit # "none" /\ diskSeen \in {"missing", "unreadable", "badutf8", "notjson"}) =>
        /\ exit = "ok"
        /\ \A p \in TrueNow : FiredAt(p[1], p[2])

\* C9 as claimed: while the macro condition holds in every run, the macro
\* trigger emits at most maxRepeats (the 3 of "[n/3]") alerts in total.
C9_CappedRepeatCount == l1Fires <= L1_COUNT_CAP

\* C9 amended: while the macro condition holds in every run, the macro
\* trigger emits at most 3 first-tranche alerts and at most 3 confirmation
\* alerts, at most 6 alerts in total.
C9_CappedRepeatCountPerStage ==
    /\ l1Fires <= 2 * L1_COUNT_CAP
    /\ \A a \in alerts : a.key = Key("qqq_l1", "") => a.val \in 1..L1_COUNT_CAP

C9_Witness ==
    /\ exit = "ok" /\ QqqCondition(inp)
    /\ l1Fires = 2 * L1_COUNT_CAP
    /\ now - l1Start[1] >= cfg.l1_min_gap
    /\ ~Fired(Key("qqq_l1", ""))

SavedLast == IF disk.kind = "json" THEN loads(disk.text).last ELSE EmptyMap

\* C13: in any run, an alert for a step-policy key is emitted only if the
\* key was absent or inactive in the state the run loaded, or its severity
\* is at least the step above the severity of the loaded record.
C13_OnlyNewOrMoreExtreme ==
    \A a \in alerts :
        IsStepKey(a.key) =>
            \/ a.key \notin DOMAIN loaded
            \/ ~loaded[a.key].active
            \/ a.val >= loaded[a.key].severity + StepFor(a.key)

C13_Witness ==
    /\ exit = "ok"
    /\ \E a \in alerts : \E p \in TrueNow :
        /\ IsStepKey(a.key) /\ StepFor(a.key) > 0
        /\ a.key \in DOMAIN loaded /\ loaded[a.key].active
        /\ a.val >= loaded[a.key].severity + StepFor(a.key)
        /\ p[1] # a.key /\ p[1] \in DOMAIN loaded /\ loaded[p[1]].active
        /\ p[2] < loaded[p[1]].severity + StepFor(p[1])
        /\ ~Fired(p[1])

\* C14 as claimed: the severity stored in an active record is the severity
\* of the key's most recent alert, and a key that was active in the loaded
\* state gets an alert only at a severity at least the step above the
\* severity of its most recent alert.
C14_StepFromLastFired ==
    exit = "ok" =>
        \A k \in DOMAIN SavedLast :
            (IsStepKey(k) /\ SavedLast[k].active) =>
                /\ ~Fired(k) =>
                      /\ k \in DOMAIN firedBefore
                      /\ SavedLast[k].severity = firedBefore[k]
                /\ (Fired(k) /\ k \in DOMAIN loaded /\ loaded[k].active) =>
                      /\ k \in DOMAIN firedBefore
                      /\ \A a \in alerts :
                            a.key = k => a.val >= firedBefore[k] + StepFor(k)

\* C14 amended: the severity stored in an active record is the severity the
\* latest run observed, whether or not that run emitted an alert, and a key
\* that was active in the loaded state gets an alert only at a severity at
\* least the step above the severity the run before observed.
C14_StepFromLastObserved ==
    exit = "ok" =>
        \A p \in TrueNow :
            /\ p[1] \in DOMAIN SavedLast
            /\ SavedLast[p[1]].active
            /\ SavedLast[p[1]].severity = p[2]
            /\ (Fired(p[1]) /\ p[1] \in DOMAIN loaded /\ loaded[p[1]].active) =>
                  p[2] >= loaded[p[1]].severity + StepFor(p[1])

C14_Witness ==
    /\ exit = "ok" /\ cfg.pnl_step > 0
    /\ \E p \in TrueNow :
        /\ p[1] = Key("pnl", "")
        /\ ~Fired(p[1])
        /\ p[1] \in DOMAIN firedBefore
        /\ p[2] > firedBefore[p[1]]
        /\ SavedLast[p[1]].severity = p[2]

\* C16: every run that ends exits with code 0 (in the model the state file
\* can always be written): a run never ends on an uncaught exception.
C16_ExitCodeZero == exit # "crash"

AlertCats == {a.key.cat : a \in alerts}

\* C17: a run whose snapshot fetch failed emits no pnl, move or rsi alert,
\* one whose RSI computation failed emits no rsi alert, one without a QQQ
\* price emits no macro alert; in each case the run ends normally, has
\* saved the state, and has emitted the alert of every key of another
\* category that is new (absent or inactive in the loaded state) and whose
\* condition is true on the answers that did arrive.
C17_FailureIsolation ==
    exit # "none" =>
        /\ exit = "ok"
        /\ disk.kind = "json" /\ loads(disk.text).updatedAt = now
        /\ ~inp.snap.ok => AlertCats \cap {"pnl", "move", "rsi_low", "rsi_high"} = {}
        /\ ~inp.rsi.ok => AlertCats \cap {"rsi_low", "rsi_high"} = {}
        /\ inp.qqq = None => "qqq_l1" \notin AlertCats
        /\ \A p \in TrueNow :
              (p[1] \notin DOMAIN loaded \/ ~loaded[p[1]].active) => FiredAt(p[1], p[2])
        /\ (QqqCondition(inp) /\ Key("qqq_l1", "") \notin DOMAIN loaded)
              => FiredAt(Key("qqq_l1", ""), 1)

C17_Witness ==
    /\ exit = "ok" /\ prevExit = "ok"
    /\ inp.snap.ok /\ ~inp.rsi.ok /\ inp.qqq = None
    /\ AlertCats = {"pnl", "move"}
    /\ prevAlerts # {} /\ {a.key.cat : a \in prevAlerts} = {"qqq_l1"}
    /\ disk.kind = "json" /\ loads(disk.text).updatedAt = now

\* C11: whenever the process has begun a save, and wherever in the save it
\* is or has died, the state file holds the complete document that was
\* there before the save or the complete document being saved, and load()
\* returns one of the two.
C11_AtomicSave ==
    "new" \in DOMAIN proc[1] =>
        /\ disk \in {proc[1].old, save(proc[1].new)}
        /\ load(disk).raised = None
        /\ load(disk).value \in {load(proc[1].old).value, proc[1].new}

C11_Witness ==
    /\ "new" \in DOMAIN proc[1]
    /\ proc[1].pc = "idle"
    /\ proc[1].old.kind = "json"
    /\ tmpf = Truncated
    /\ disk = proc[1].old
    /\ load(disk).value # proc[1].new

\* C12: a run that is between its load and its save finds the state file
\* as it loaded it (no other run has saved in between), and a run that
\* prints after another, on the same condition at the same severity, does
\* not emit the alert the other emitted.
C12_RunsSerialized ==
    /\ \A p \in Procs : proc[p].pc = "run_loaded" => disk = proc[p].seen
    /\ exit = "ok" =>
          \A a \in prevAlerts :
              (IsStepKey(a.key) /\ StepFor(a.key) > 0 /\ <<a.key, a.val>> \in TrueNow)
                  => ~FiredAt(a.key, a.val)

\* C20: when two processes have each completed update(k, v) on the same
\* valid state file, with different keys, the file holds a JSON object with
\* both keys at the values written and every other key that was there
\* before at its value.
C20_UpdateAtomic ==
    (\A p \in Procs : proc[p].pc = "upd_done") =>
        /\ disk.kind = "json"
        /\ LET doc == loads_obj(disk.text)
               was == loads_obj(orig.text)
           IN  /\ \A p \in Procs :
                     proc[p].key \in DOMAIN doc /\ doc[proc[p].key] = proc[p].value
               /\ \A k \in DOMAIN was \ {proc[p].key : p \in Procs} :
                     k \in DOMAIN doc /\ doc[k] = was[k]

C20_Witness ==
    /\ \A p \in Procs : proc[p].pc = "upd_done"
    /\ proc[1].key \notin DOMAIN loads_obj(orig.text)
    /\ proc[2].key \notin DOMAIN loads_obj(orig.text)
    /\ DOMAIN loads_obj(disk.text) = {"a", proc[1].key, proc[2].key}
    /\ loads_obj(disk.text)["a"] = 0

\* C15: a run that has started eventually exits, whether its fetches return
\* or not and even if its main thread makes no progress at all.
C15_EventuallyExits ==
    (proc[1].pc # "idle") ~> (proc[1].pc = "exited")

C15_Witness ==
    /\ proc[1].pc = "exited"
    /\ proc[1].by = "watchdog"
    /\ proc[1].at \in Fetches
    /\ now - proc[1].t0 = ALERT_TIMEOUT

ObRef == RefPrice(obQuote)

\* C18: a run alerts a target only if the target had never alerted or a
\* run since its latest alert (this run included) saw a reference price
\* above trigger_price * (1 + reset_pct); and a run that sees a reference
\* price at or below trigger_price alerts every target that had never
\* alerted or had been re-armed since its latest alert.
C18_OnceUntilReArmed ==
    \A n \in TargetNames :
        /\ n \in obAlerts =>
              \/ obWas[n] \in {"fresh", "rearmed"}
              \/ AboveReset(ObRef, TargetOf(n))
        /\ (obRuns > 0 /\ obWas[n] \in {"fresh", "rearmed"}
               /\ ObRef # None /\ ObRef[1] <= TargetOf(n).trigger_price)
              => n \in obAlerts
        /\ (obRuns > 0 /\ obWas[n] = "alerted" /\ ~AboveReset(ObRef, TargetOf(n)))
              => n \notin obAlerts

C18_Witness ==
    /\ obRuns > 2
    /\ "target2" \in obAlerts /\ obWas["target2"] = "rearmed"
    /\ "target1" \notin obAlerts /\ obWas["target1"] = "alerted"
    /\ ObRef # None /\ ObRef[1] <= TargetOf("target2").trigger_price

C21_SeverityCoasts ==
    exit = "ok" =>
        \A p \in TrueNow :
            /\ p[1] \in DOMAIN SavedLast
            /\ SavedLast[p[1]].severity = p[2]
            /\ (p[1] \in DOMAIN loaded /\ loaded[p[1]].active) =>
                  (Fired(p[1]) <=> p[2] >= loaded[p[1]].severity + StepFor(p[1]))

C21_Witness ==
    /\ exit = "ok" /\ prevExit = "ok" /\ prevAlerts = {}
    /\ \E p \in TrueNow :
        /\ p[1] \in DOMAIN firedBefore
        /\ StepFor(p[1]) > 0
        /\ p[2] >= firedBefore[p[1]] + StepFor(p[1])
        /\ p[1] \in DOMAIN loaded /\ loaded[p[1]].active
        /\ loaded[p[1]].severity > firedBefore[p[1]]
        /\ ~Fired(p[1])
        /\ SavedLast[p[1]].severity = p[2]

\* C22: in the state a completed run saved, a pnl, move or rsi key is active
\* exactly when its condition was true in that run, and every such key that
\* was active in the loaded state and whose condition was not true in the
\* run is saved inactive.
C22_StaleActivesCleared ==
    exit = "ok" =>
        /\ \A k \in DOMAIN SavedLast :
              IsStepKey(k) => (SavedLast[k].active <=> k \in KeysOf(TrueNow))
        /\ \A k \in KeysOf(TrueNow) : k \in DOMAIN SavedLast
        /\ \A k \in DOMAIN loaded :
              (IsStepKey(k) /\ loaded[k].active /\ k \notin KeysOf(TrueNow))
                  => (k \in DOMAIN SavedLast /\ ~SavedLast[k].active)

C22_Witness ==
    /\ exit = "ok"
    /\ \E k, j \in DOMAIN loaded :
        /\ k.cat = "move" /\ loaded[k].active /\ k \notin KeysOf(TrueNow)
        /\ ~SavedLast[k].active
        /\ j.cat = "rsi_low" /\ loaded[j].active /\ j \in KeysOf(TrueNow)
        /\ SavedLast[j].active

\* C23: in every state document the monitor saved, every record that has
\* active = false has severity = 0.
C23_CanonicalClearedShape ==
    \A k \in DOMAIN SavedLast :
        ("active" \in DOMAIN SavedLast[k] /\ ~SavedLast[k].active)
            => SavedLast[k].severity = 0

C23_Witness ==
    /\ exit = "ok"
    /\ \E k, j \in DOMAIN loaded :
        /\ k.cat = "pnl" /\ loaded[k].active /\ loaded[k].severity > 0
        /\ ~SavedLast[k].active /\ SavedLast[k].severity = 0
        /\ j.cat = "rsi_high" /\ loaded[j].active /\ loaded[j].severity > 0
        /\ ~SavedLast[j].active /\ SavedLast[j].severity = 0

\* C24: when the snapshot fetch failed in a run, the pnl and move records
\* (and the rsi records, whose tickers come from the snapshot) are saved as
\* they were loaded (same active flag, same severity); when the RSI
\* computation failed, the rsi records are; when there was no QQQ price,
\* the macro record is.
C24_NoMutationOnFailedFetch ==
    exit = "ok" =>
        \A k \in DOMAIN loaded :
            (\/ ~inp.snap.ok /\ IsStepKey(k)
             \/ ~inp.rsi.ok /\ k.cat \in {"rsi_low", "rsi_high"}
             \/ inp.qqq = None /\ k.cat = "qqq_l1")
                => /\ k \in DOMAIN SavedLast
                   /\ IF k.cat = "qqq_l1" THEN SavedLast[k] = loaded[k]
                      ELSE /\ SavedLast[k].active = loaded[k].active
                           /\ SavedLast[k].severity = loaded[k].severity

\* C25 as claimed: with a step of 0 or less, every key whose condition is
\* true in a run gets an alert in that run.
C25_NonPositiveStepAlwaysFires ==
    exit = "ok" =>
        \A p \in TrueNow : StepFor(p[1]) <= 0 => FiredAt(p[1], p[2])

\* C25 amended: with a step of 0 or less, a key whose condition is true in
\* a run gets an alert in that run exactly when it was absent or inactive
\* in the loaded state or its severity is not lower than the loaded
\* severity plus the step; in particular it gets one whenever its severity
\* has not fallen.
C25_NonPositiveStepFiresUnlessFallen ==
    exit = "ok" =>
        \A p \in TrueNow :
            StepFor(p[1]) <= 0 =>
                /\ Fired(p[1]) <=>
                      \/ p[1] \notin DOMAIN loaded
                      \/ ~loaded[p[1]].active
                      \/ p[2] >= loaded[p[1]].severity + StepFor(p[1])
                /\ (p[1] \in DOMAIN loaded /\ p[2] >= loaded[p[1]].severity)
                      => FiredAt(p[1], p[2])

C25_Witness ==
    /\ exit = "ok" /\ prevExit = "ok"
    /\ \E p \in TrueNow : \E a \in prevAlerts :
        /\ StepFor(p[1]) < 0
        /\ a.key = p[1] /\ loaded[p[1]].active /\ loaded[p[1]].severity = a.val
        /\ p[2] < a.val
        /\ FiredAt(p[1], p[2])

\* what the run followed stage by stage has done so far, in order
StageLog == IF "log" \in DOMAIN proc[1] THEN proc[1].log ELSE << >>
StagePlan ==
    <<"load", "eval_qqq", "eval_pnl", "eval_rsi", "eval_move", "save", "print">>

\* C26: what a run has done is at every moment a beginning of: one load,
\* the four evaluations, one save, the print.  So the state is read once,
\* before any evaluation, written once, after all of them, and the print
\* comes after the save.
C26_RunOrdering ==
    /\ Len(StageLog) <= Len(StagePlan)
    /\ \A n \in 1..Len(StageLog) : StageLog[n] = StagePlan[n]

C26_Witness ==
    /\ proc[1].pc = "exited" /\ proc[1].by = "main"
    /\ StageLog = StagePlan
    /\ proc[1].out # None /\ proc[1].out[1] # {}
    /\ disk = save([last |-> proc[1].last, updatedAt |-> proc[1].t])

\* C29: when the process has exited after a run saved a state in which a
\* step key is active that the run loaded absent, inactive or at a severity
\* at least a step lower, the run has printed the alert of that key.
C29_PersistedFiresEmitted ==
    (proc[1].pc = "exited" /\ \E n \in 1..Len(StageLog) : StageLog[n] = "save") =>
        \A k \in DOMAIN SavedLast :
            (/\ IsStepKey(k)
             /\ SavedLast[k].active
             /\ \/ k \notin DOMAIN proc[1].loaded
                \/ ~proc[1].loaded[k].active
                \/ SavedLast[k].severity >= proc[1].loaded[k].severity + StepFor(k))
                => /\ proc[1].out # None
                   /\ \E a \in proc[1].out[1] : a.key = k /\ a.val = SavedLast[k].severity

\* C27: when the run before the latest emitted the P&L alert at magnitude V
\* and the day P&L of the latest run has a magnitude of at least the
\* trigger, the latest run emits the P&L alert exactly when that magnitude
\* is at least V plus pnl_step, whatever the signs of the two; the alert
\* shows the magnitude and the direction of the latest day P&L.
C27_PnlSharedLadder ==
    (exit = "ok" /\ inp.snap.ok /\ Abs(inp.snap.day_pnl) >= cfg.pnl_trigger) =>
        \A a \in prevAlerts :
            a.key = Key("pnl", "") =>
                /\ Fired(a.key) <=> Abs(inp.snap.day_pnl) >= a.val + cfg.pnl_step
                /\ \A b \in alerts :
                      b.key = a.key =>
                          /\ b.val = Abs(inp.snap.day_pnl)
                          /\ b.tag = IF inp.snap.day_pnl > 0 THEN "pnl_gain" ELSE "pnl_loss"

C27_Witness ==
    /\ exit = "ok" /\ cfg.pnl_step > 0
    /\ \E a \in prevAlerts : \E b \in alerts :
        /\ a.tag = "pnl_gain" /\ b.tag = "pnl_loss"
        /\ inp.snap.day_pnl < 0
        /\ b.val >= a.val + cfg.pnl_step

\* the documents a load may return: the one present before, or one that
\* update() wrote to the end
C28Loaded == proc[Reader].pc = "load_done"
C28Written ==
    LET before == loads_obj(orig.text)
        keys == UpdateKeys[Writer]
    IN  {d \in UNION {[ks -> {0} \cup UpdateValues] :
                         ks \in {DOMAIN before \cup more : more \in SUBSET keys}} :
            \A k \in DOMAIN d : d[k] = 0 => (k \in DOMAIN before /\ before[k] = 0)}

\* C28: a load() that runs while update() rewrites the state file returns
\* the document present before or a document update() wrote to the end,
\* never an empty document.
C28_ReadersSeeWholeDocument ==
    C28Loaded => proc[Reader].got \in C28Written

\* C30: in the document a run saves, the record of every key is the one
\* the evaluator of the key's own category writes when it works on the
\* loaded state alone: the clearing of the rsi_ keys and the clearing of the
\* move: keys change no record of another category, and neither changes
\* the pnl record or the macro record qqq_l1.
C30_CategoryIsolation ==
    exit = "ok" =>
        LET snap == holdings_snapshot(inp.snap)
            rsi_hits == compute_rsi_extremes_safe(snap.holds, inp.rsi, cfg)
            Alone(k) ==
                CASE k.cat = "qqq_l1" -> QqqEval(loaded, inp.qqq, now, cfg).last
                  [] k.cat = "pnl" -> PnlEval(loaded, snap.day_pnl, now, cfg).last
                  [] k.cat \in {"rsi_low", "rsi_high"} -> RsiEval(loaded, rsi_hits, now, cfg).last
                  [] k.cat = "move" -> MoveEval(loaded, snap.holds, now, cfg).last
        IN  \A k \in DOMAIN SavedLast :
                k \in DOMAIN Alone(k) /\ SavedLast[k] = Alone(k)[k]

\* the RSI record of a ticker is cleared in a run that keeps the move
\* record of the same ticker, the pnl record and the macro record active
C30_Witness ==
    /\ exit = "ok"
    /\ \E k, j, p, q \in DOMAIN loaded :
        /\ k.cat = "rsi_low" /\ j.cat = "move" /\ k.tkr = j.tkr
        /\ p.cat = "pnl" /\ q.cat = "qqq_l1"
        /\ loaded[k].active /\ ~SavedLast[k].active
        /\ loaded[j].active /\ SavedLast[j].active
        /\ loaded[p].active /\ SavedLast[p].active
        /\ loaded[q].hitTs # None /\ SavedLast[q].hitTs = loaded[q].hitTs

====
